---- MODULE Spec2Model ----
(***************************************************************************)
(* BjornUI.ConsoleSSE (src/web/js/global.js, lines 11-351): the streaming  *)
(* log console of the dashboard.  The variable `state` holds the module's  *)
(* `state` object together with the browser objects its handlers act on    *)
(* (the EventSource objects, the pending timers, the #logout element).     *)
(* Every handler is an operator from a state to the state it leaves when   *)
(* its callback turn ends; every action applies one handler.               *)
(*                                                                         *)
(* Log lines are numbered in the order the server pushes them: line k is   *)
(* the k-th non-empty payload.  The rendered log is the sequence of lines  *)
(* held by #logout's innerHTML, each followed by <br>.                     *)
(***************************************************************************)
EXTENDS Integers, Sequences, FiniteSets, TLC

\* ---------------------------------------------------------------- constants
maxLines == 200
maxReconnect == 5
maxBufferSize == 1000

\* ------------------------------------------------------------------- bounds
\* pending reconnect timers (setTimeout callbacks of reconnect())
MaxTimers == 2
\* EventSource objects that are not closed
MaxChannels == 2
\* non-empty lines pushed by the server in SpecView
MaxPushed == 3
\* non-empty lines pushed by the server in Spec and SpecConn
ConnPushed == 1
\* pending requestAnimationFrame callbacks of forceBottom()
MaxRaf == 1
\* lines pushed beyond maxBufferSize in SpecCap
CapExtra == 2
\* how far below a cap the initial states of SpecCap begin
CapSlack == 2
\* how far beyond the slider's range SpecFont follows the font size
MaxOver == 2

\* how many times in a row the decoration functions are applied to a line
MaxPasses == 2

VARIABLES state, last, pushed, intent, fails, deco

vars == <<state, last, pushed, intent, fails, deco>>

\* the payload of a keep-alive message: empty after trim()
EmptyPayload == 0

\* a payload of white space only
Blank == -1

\* String.prototype.trim() of (raw||''): line k stands for its trimmed text
trim(raw) == IF raw = Blank THEN EmptyPayload ELSE raw

Null == 0

\* the last n elements of seq: Array.prototype.slice(-n)
LastN(seq, n) ==
  IF Len(seq) <= n THEN seq ELSE SubSeq(seq, Len(seq) - n + 1, Len(seq))

\* the #consoleFont range input of the console panel, and a page without it;
\* min and max are the numbers its attributes convert to
consoleFont == [present |-> TRUE, min |-> 2, max |-> 24, value |-> 11]

NoSlider == [present |-> FALSE, min |-> 0, max |-> 0, value |-> 0]

\* ------------------------------------------------------------ initial state
\* the `state` literal, before init(): no element is bound, no channel exists.
\* raises: whether `new EventSource('/stream_logs')` raises in this browsing
\* context (no EventSource constructor, or a base URL the path cannot be
\* resolved against), which sends start() into its catch branch
state0(raises) ==
  [ logConsole      |-> FALSE,
    toggleImg       |-> "none",
    bufferIndicator |-> FALSE,
    scrollBtn       |-> "absent",
    eventSource     |-> Null,
    isConsoleOn     |-> FALSE,
    reconnectAttempts |-> 0,
    isUserScrolling |-> FALSE,
    autoScroll      |-> TRUE,
    scrollTimeout   |-> FALSE,
    logBuffer       |-> <<>>,
    fontSize        |-> 12,
    \* browser objects
    raises          |-> raises,
    \* font: whether navigator.userAgent is a mobile one; the localStorage item
    \* under fontKey (<<>>: no item, <<v>>: the decimal string of v); the
    \* range input; #logout's style.fontSize in px (<<>>: not set).  Font
    \* sizes are whole pixels and localStorage is taken to be usable.
    mobile          |-> FALSE,
    stored          |-> <<>>,
    slider          |-> consoleFont,
    fontPx          |-> <<>>,
    chan            |-> <<>>,
    reconnectTimers |-> 0,
    debounceTimers  |-> 0,
    raf             |-> 0,
    autostart       |-> "none",
    inited          |-> FALSE,
    innerHTML       |-> <<>>,
    indicator       |-> 0,
    atBottom        |-> TRUE ]

\* ------------------------------------------------------------------ helpers
Pinned(s) == ~s.isUserScrolling /\ s.autoScroll

\* scrollToBottom() without its test of the scroll flags
scrollToBottom_always(s) == [s EXCEPT !.atBottom = TRUE]

scrollToBottom(s) ==
  IF ~s.isUserScrolling /\ s.autoScroll
    THEN [s EXCEPT !.atBottom = TRUE]
    ELSE s

\* forceBottom() leaving the flags to its animation frame
forceBottom_deferred(s) ==
  IF ~s.logConsole THEN s
  ELSE [s EXCEPT !.raf = @ + 1]

forceBottom(s) ==
  IF ~s.logConsole THEN s
  ELSE [s EXCEPT !.isUserScrolling = FALSE,
                 !.autoScroll = TRUE,
                 !.raf = @ + 1]

updateBufferIndicator(s) ==
  IF ~s.bufferIndicator THEN s
  ELSE [s EXCEPT !.indicator = Len(s.logBuffer)]

\* innerHTML.split('<br>'): every line ends with <br>, so the pieces are the
\* lines followed by one empty piece
splitBr(html) == Append(html, EmptyPayload)

\* pieces.join('<br>') read back as lines: a piece that is followed by <br>
joinBr(pieces) ==
  IF pieces = <<>> THEN <<>> ELSE SubSeq(pieces, 1, Len(pieces) - 1)

capLines(html) ==
  LET lines == splitBr(html)
  IN  IF Len(lines) > maxLines THEN joinBr(LastN(lines, maxLines)) ELSE html

\* appendLogs() evicting with pop() instead of shift()
appendLogs_pop(s, raw) ==
  LET clean == trim(raw) IN
  IF clean = EmptyPayload \/ ~s.logConsole THEN s
  ELSE IF s.isUserScrolling \/ ~s.autoScroll
    THEN LET pushedS == [s EXCEPT !.logBuffer = Append(@, clean)]
             popped  == IF Len(pushedS.logBuffer) > maxBufferSize
                          THEN [pushedS EXCEPT
                                  !.logBuffer = SubSeq(@, 1, Len(@) - 1)]
                          ELSE pushedS
         IN  updateBufferIndicator(popped)
    ELSE LET added    == [s EXCEPT !.innerHTML = Append(@, clean)]
             scrolled == IF added.autoScroll /\ ~added.isUserScrolling
                           THEN scrollToBottom(added) ELSE added
         IN  [scrolled EXCEPT !.innerHTML = capLines(@)]

\* appendLogs() testing the payload without trimming it
appendLogs_noTrim(s, raw) ==
  IF raw = EmptyPayload \/ ~s.logConsole THEN s
  ELSE IF s.isUserScrolling \/ ~s.autoScroll
    THEN LET pushedS == [s EXCEPT !.logBuffer = Append(@, raw)]
             shifted == IF Len(pushedS.logBuffer) > maxBufferSize
                          THEN [pushedS EXCEPT !.logBuffer = Tail(@)]
                          ELSE pushedS
         IN  updateBufferIndicator(shifted)
    ELSE LET added    == [s EXCEPT !.innerHTML = Append(@, raw)]
             scrolled == IF added.autoScroll /\ ~added.isUserScrolling
                           THEN scrollToBottom(added) ELSE added
         IN  [scrolled EXCEPT !.innerHTML = capLines(@)]

appendLogs(s, raw) ==
  LET clean == trim(raw) IN
  IF clean = EmptyPayload \/ ~s.logConsole THEN s
  ELSE IF s.isUserScrolling \/ ~s.autoScroll
    THEN LET pushedS == [s EXCEPT !.logBuffer = Append(@, clean)]
             shifted == IF Len(pushedS.logBuffer) > maxBufferSize
                          THEN [pushedS EXCEPT !.logBuffer = Tail(@)]
                          ELSE pushedS
         IN  updateBufferIndicator(shifted)
    ELSE LET added    == [s EXCEPT !.innerHTML = Append(@, clean)]
             scrolled == IF added.autoScroll /\ ~added.isUserScrolling
                           THEN scrollToBottom(added) ELSE added
         IN  [scrolled EXCEPT !.innerHTML = capLines(@)]

\* flushBuffer() reading the buffer without splicing it out
flushBuffer_keep(s) ==
  IF s.logBuffer = <<>> \/ ~s.logConsole THEN s
  ELSE LET buf      == s.logBuffer
           drained  == [s EXCEPT !.innerHTML = @ \o buf]
       IN  updateBufferIndicator(scrollToBottom(drained))

flushBuffer(s) ==
  IF s.logBuffer = <<>> \/ ~s.logConsole THEN s
  ELSE LET buf      == s.logBuffer
           drained  == [s EXCEPT !.logBuffer = <<>>,
                                 !.innerHTML = @ \o buf]
       IN  updateBufferIndicator(scrollToBottom(drained))

\* ---------------------------------------------------------------------- SSE
\* state.chan holds the readyState of every EventSource object that is not
\* closed, oldest first; state.eventSource is Null or an index into it.  A
\* closed EventSource fires no further event and is dropped from the sequence.
Without(seq, i) ==
  [k \in 1..(Len(seq) - 1) |-> IF k < i THEN seq[k] ELSE seq[k + 1]]

\* EventSource.close() on channel c
close(s, c) ==
  [s EXCEPT !.chan = Without(@, c),
            !.eventSource = IF @ = c THEN @ ELSE IF @ > c THEN @ - 1 ELSE @]

stopSSE(s) ==
  IF s.eventSource # Null
    THEN [close(s, s.eventSource) EXCEPT !.eventSource = Null]
    ELSE s

\* reconnect() comparing with <= instead of <
reconnect_le(s) ==
  IF s.reconnectAttempts <= maxReconnect
    THEN [s EXCEPT !.reconnectTimers = @ + 1]
    ELSE [s EXCEPT !.isConsoleOn = FALSE,
                   !.toggleImg = IF @ = "none" THEN @ ELSE "off"]

reconnect(s) ==
  IF s.reconnectAttempts < maxReconnect
    THEN [s EXCEPT !.reconnectTimers = @ + 1]
    ELSE [s EXCEPT !.isConsoleOn = FALSE,
                   !.toggleImg = IF @ = "none" THEN @ ELSE "off"]

\* start() without its leading stopSSE()
start_noClean(s) ==
  LET clean == [s EXCEPT !.isConsoleOn = TRUE]
  IN  IF clean.raises
        THEN IF clean.isConsoleOn THEN reconnect(clean) ELSE clean
        ELSE [clean EXCEPT !.chan = Append(@, "CONNECTING"),
                           !.eventSource = Len(clean.chan) + 1]

start(s) ==
  LET clean == [stopSSE(s) EXCEPT !.isConsoleOn = TRUE]
  IN  IF clean.raises
        THEN IF clean.isConsoleOn THEN reconnect(clean) ELSE clean
        ELSE [clean EXCEPT !.chan = Append(@, "CONNECTING"),
                           !.eventSource = Len(clean.chan) + 1]

\* an open event whose handler leaves the attempt counter alone
onopen_noReset(s, c) ==
  [s EXCEPT !.chan[c] = "OPEN"]

onopen(s, c) ==
  [s EXCEPT !.chan[c] = "OPEN", !.reconnectAttempts = 0]

\* the browser sets channel c's readyState (CLOSED when it fails the
\* connection, CONNECTING when it re-establishes it), then runs the handler,
\* which reads the readyState of state.eventSource
onerror(s, c, ready) ==
  IF ready = "CLOSED"
    THEN IF s.eventSource = c
           THEN LET s2 == stopSSE(s)
                IN  IF s2.isConsoleOn THEN reconnect(s2) ELSE s2
           ELSE close(s, c)
    ELSE [s EXCEPT !.chan[c] = ready]

\* the callback of reconnect()'s setTimeout
reconnectTimer(s) ==
  LET s1 == start([s EXCEPT !.reconnectTimers = @ - 1])
  IN  [s1 EXCEPT !.reconnectAttempts = @ + 1]

\* ---------------------------------------------------------- public controls
\* stop() refreshing the indicator before it empties the buffer
stop_indicatorFirst(s) ==
  LET s1 == updateBufferIndicator(stopSSE(s))
  IN  [s1 EXCEPT !.reconnectAttempts = 0, !.logBuffer = <<>>]

\* stop() emptying the rendered log along with the buffer
stop_eraseLog(s) ==
  LET s1 == stopSSE(s)
      s2 == [s1 EXCEPT !.reconnectAttempts = 0, !.logBuffer = <<>>,
                       !.innerHTML = <<>>]
  IN  updateBufferIndicator(s2)

\* stop() without its reset of the attempt counter
stop_keepAttempts(s) ==
  LET s1 == stopSSE(s)
      s2 == [s1 EXCEPT !.logBuffer = <<>>]
  IN  updateBufferIndicator(s2)

stop(s) ==
  LET s1 == stopSSE(s)
      s2 == [s1 EXCEPT !.reconnectAttempts = 0, !.logBuffer = <<>>]
  IN  updateBufferIndicator(s2)

toggle(s) ==
  LET flipped == [s EXCEPT !.isConsoleOn = ~@]
  IN  IF flipped.isConsoleOn
        THEN [start(flipped) EXCEPT
                !.toggleImg = IF @ = "none" THEN @ ELSE "on"]
        ELSE [stop(flipped) EXCEPT
                !.toggleImg = IF @ = "none" THEN @ ELSE "off"]

\* ---------------------------------------------------------------------- font
MathMax(a, b) == IF a >= b THEN a ELSE b

MathMin(a, b) == IF a <= b THEN a ELSE b

adjustFont(s, delta) ==
  LET s1 == [s EXCEPT !.fontSize = @ + delta]
  IN  IF s1.logConsole THEN [s1 EXCEPT !.fontPx = <<s1.fontSize>>] ELSE s1

\* px: whole pixels, which Math.round() leaves as they are.  The --console-font
\* property and the slider's backgroundSize follow v and are not kept.
setFont(s, px) ==
  LET inp == s.slider
      min == IF inp.present THEN (IF inp.min # 0 THEN inp.min ELSE 2) ELSE 2
      max == IF inp.present THEN (IF inp.max # 0 THEN inp.max ELSE 24) ELSE 24
      v   == MathMax(min, MathMin(max, px))
      s1  == [s EXCEPT !.fontSize = v]
      s2  == IF s1.logConsole THEN [s1 EXCEPT !.fontPx = <<v>>] ELSE s1
      s3  == [s2 EXCEPT !.stored = <<v>>]
  IN  IF inp.present THEN [s3 EXCEPT !.slider.value = v] ELSE s3

\* ---------------------------------------------------------------- listeners
isAtBottom(s) == s.atBottom

clearTimeout(s) ==
  IF s.scrollTimeout
    THEN [s EXCEPT !.scrollTimeout = FALSE, !.debounceTimers = @ - 1]
    ELSE s

setTimeout(s) ==
  [s EXCEPT !.scrollTimeout = TRUE, !.debounceTimers = @ + 1]

\* the scroll listener without its else branch (autoScroll = false)
onScroll_noElse(s, pos) ==
  LET moved   == [s EXCEPT !.atBottom = pos,
                           !.scrollBtn = IF pos THEN "none" ELSE "block"]
      cleared == clearTimeout(moved)
      was     == cleared.isUserScrolling
      marked  == [cleared EXCEPT !.isUserScrolling = TRUE]
      decided == IF isAtBottom(marked)
                   THEN LET p == [marked EXCEPT !.autoScroll = TRUE,
                                                !.isUserScrolling = FALSE]
                        IN  IF was THEN flushBuffer(p) ELSE p
                   ELSE marked
  IN  setTimeout(decided)

\* the two 'scroll' listeners of #logout; pos: the viewport is within the
\* bottom threshold when the event is dispatched
onScroll(s, pos) ==
  LET moved   == [s EXCEPT !.atBottom = pos,
                           !.scrollBtn = IF pos THEN "none" ELSE "block"]
      cleared == clearTimeout(moved)
      was     == cleared.isUserScrolling
      marked  == [cleared EXCEPT !.isUserScrolling = TRUE]
      decided == IF isAtBottom(marked)
                   THEN LET p == [marked EXCEPT !.autoScroll = TRUE,
                                                !.isUserScrolling = FALSE]
                        IN  IF was THEN flushBuffer(p) ELSE p
                   ELSE [marked EXCEPT !.autoScroll = FALSE]
  IN  setTimeout(decided)

\* the wheel listener leaving the flags alone until its timer fires
onWheel_timerOnly(s) ==
  setTimeout(clearTimeout(s))

\* the wheel listener scheduling its timer without clearing the last one
onWheel_noClear(s) ==
  setTimeout([s EXCEPT !.isUserScrolling = TRUE, !.autoScroll = FALSE])

onWheel(s) ==
  LET cleared == clearTimeout(s)
  IN  setTimeout([cleared EXCEPT !.isUserScrolling = TRUE,
                                 !.autoScroll = FALSE])

\* the timer callback pinning and flushing without its bottom test
debounceTimer_noTest(s) ==
  LET fired == [s EXCEPT !.debounceTimers = @ - 1, !.scrollTimeout = FALSE]
  IN  flushBuffer([fired EXCEPT !.isUserScrolling = FALSE,
                                !.autoScroll = TRUE])

\* the callback of the scroll and wheel listeners' setTimeout
debounceTimer(s) ==
  LET fired == [s EXCEPT !.debounceTimers = @ - 1, !.scrollTimeout = FALSE]
  IN  IF isAtBottom(fired)
        THEN flushBuffer([fired EXCEPT !.isUserScrolling = FALSE,
                                       !.autoScroll = TRUE])
        ELSE fired

\* click on the "scroll to bottom" button
onClick(s) ==
  LET p == [s EXCEPT !.autoScroll = TRUE, !.isUserScrolling = FALSE]
  IN  [scrollToBottom(flushBuffer(p)) EXCEPT !.scrollBtn = "none"]

\* the dashboard's #clearLogs button
clearLogs(s) == [s EXCEPT !.innerHTML = <<>>, !.atBottom = TRUE]

\* ---------------------------------------------------------------- lifecycle
\* found: the target element exists; img: #toggle-console-image exists
init(s, found, img) ==
  LET s1 == [s EXCEPT !.inited = TRUE,
                      !.logConsole = found,
                      !.toggleImg = IF img THEN "init" ELSE "none"]
      \* the font: the mobile default, then the stored size if there is one
      s2 == IF s1.mobile /\ s1.stored = <<>>
              THEN [s1 EXCEPT !.fontSize = 11] ELSE s1
      s3 == IF s2.stored # <<>>
              THEN setFont(s2, s2.stored[1])
              ELSE [s2 EXCEPT !.fontPx = <<s2.fontSize>>]
  IN  IF ~found THEN s1
      ELSE [s3 EXCEPT !.scrollBtn = "none",
                      !.bufferIndicator = TRUE,
                      !.autostart = "pending"]

\* the reply of /check_console_autostart
autostartReply(s, t) ==
  LET s1 == [s EXCEPT !.autostart = "none"]
  IN  IF t THEN start([s1 EXCEPT !.isConsoleOn = TRUE]) ELSE s1

\* --------------------------------------------------------------- decoration
\* A line is a TLA+ string; At(str, i) is the one-character string at i.
At(str, i) == SubSeq(str, i, i)

\* the printable ASCII characters in the order of their codes: from the
\* space (32) to the underscore (95), and from a (97) to the tilde (126)
AsciiLow ==
  " !\"#$%&'()*+,-./0123456789:;<=>?@ABCDEFGHIJKLMNOPQRSTUVWXYZ[\\]^_"

AsciiHigh == "abcdefghijklmnopqrstuvwxyz{|}~"

Has(str, c) == \E k \in 1..Len(str) : At(str, k) = c

IndexOf(str, c) == CHOOSE k \in 1..Len(str) : At(str, k) = c

\* String.prototype.charCodeAt(i), i counted from 1
charCodeAt(str, i) ==
  IF Has(AsciiLow, At(str, i))
    THEN 31 + IndexOf(AsciiLow, At(str, i))
    ELSE 96 + IndexOf(AsciiHigh, At(str, i))

\* An unsigned 32-bit number is kept as its two 16-bit halves <<high, low>>.
Half == 65536

\* (h*31 + c) >>> 0
wrap31(h, c) ==
  LET low == h[2] * 31 + c
  IN  <<(h[1] * 31 + low \div Half) % Half, low % Half>>

\* h % 360 of an unsigned 32-bit number
mod360(h) == ((h[1] % 360) * (Half % 360) + h[2]) % 360

\* the loop of hueFromString from character i on
RECURSIVE hueLoop(_, _, _)
hueLoop(str, i, h) ==
  IF i > Len(str) THEN h
  ELSE hueLoop(str, i + 1, wrap31(h, charCodeAt(str, i)))

\* hueFromString() wrapping with | 0 (signed) instead of >>> 0
hueFromString_signed(str) ==
  LET h == hueLoop(str, 1, <<0, 0>>)
  IN  IF h[1] >= Half \div 2
        THEN 0 - ((256 + 360 - mod360(h)) % 360)
        ELSE mod360(h)

hueFromString(str) == mod360(hueLoop(str, 1, <<0, 0>>))

\* String(n) for a number n >= 0, as a template literal converts the hue
Digits == "0123456789"

RECURSIVE String(_)
String(n) ==
  IF n < 10 THEN At(Digits, n + 1)
  ELSE String(n \div 10) \o At(Digits, (n % 10) + 1)

\* the character at i, "" before the start and after the end of the string
Ch(str, i) == IF i \in 1..Len(str) THEN At(str, i) ELSE ""

\* str.substr(i, n) counted from 1: at most n characters, fewer at the end
Sub(str, i, n) ==
  IF i > Len(str) THEN ""
  ELSE SubSeq(str, i, IF i + n - 1 > Len(str) THEN Len(str) ELSE i + n - 1)

Upper == "ABCDEFGHIJKLMNOPQRSTUVWXYZ"

Lower == "abcdefghijklmnopqrstuvwxyz"

Chars(str) == {At(str, k) : k \in 1..Len(str)}

DigitChars == Chars(Digits)

WordChars == Chars(Digits) \cup Chars(Upper) \cup Chars(Lower) \cup {"_"}

\* \d and \w (the class [A-Za-z0-9_]) of the regular expressions
IsDigit(c) == c \in DigitChars

IsWord(c) == c \in WordChars

\* \b right before the character at i
Boundary(str, i) == IsWord(Ch(str, i - 1)) # IsWord(Ch(str, i))

\* the index of the last character of the greedy \w+ or \d+ that starts at i
\* (i - 1 when it matches nothing)
wordEnd(str, i) ==
  (CHOOSE j \in i..(Len(str) + 1) :
     ~IsWord(Ch(str, j)) /\ \A k \in i..(j - 1) : IsWord(Ch(str, k))) - 1

digitEnd(str, i) ==
  (CHOOSE j \in i..(Len(str) + 1) :
     ~IsDigit(Ch(str, j)) /\ \A k \in i..(j - 1) : IsDigit(Ch(str, k))) - 1

\* str.indexOf(pat, i) counted from 1: the first occurrence of the text pat at
\* or after i, 0 when there is none
Find(str, pat, i) ==
  IF \E p \in i..Len(str) : Sub(str, p, Len(pat)) = pat
    THEN CHOOSE p \in i..Len(str) :
           /\ Sub(str, p, Len(pat)) = pat
           /\ \A q \in i..(p - 1) : Sub(str, q, Len(pat)) # pat
    ELSE 0

\* the number of occurrences of pat in str at or after i, left to right
RECURSIVE Count(_, _, _)
Count(str, pat, i) ==
  IF Find(str, pat, i) = 0 THEN 0
  ELSE 1 + Count(str, pat, Find(str, pat, i) + Len(pat))

\* /<span[^>]*class="[^"]*logfile/.test(m)
alreadyWrapped(m) ==
  \E i \in 1..Len(m) : \E j \in (i + 5)..Len(m) : \E k \in (j + 7)..Len(m) :
    /\ Sub(m, i, 5) = "<span"
    /\ Sub(m, j, 7) = "class=\""
    /\ Sub(m, k, 7) = "logfile"
    /\ \A n \in (i + 5)..(j - 1) : At(m, n) # ">"
    /\ \A n \in (j + 7)..(k - 1) : At(m, n) # "\""

logfileOpen == "<span class=\"logfile\""

\* the replacement of one match m of pass 1 (fn is the whole match)
logfileSpan(m) ==
  IF alreadyWrapped(m) THEN m
  ELSE logfileOpen \o " style=\"--h:" \o String(hueFromString(m)) \o "\">"
       \o m \o "</span>"

\* /\b([A-Za-z0-9_]+\.py)\b/ matches at p: the greedy \w+ takes a whole word,
\* which must start at a \b and be followed by ".py" and a \b
sourceAt(str, p) ==
  /\ IsWord(Ch(str, p))
  /\ ~IsWord(Ch(str, p - 1))
  /\ Sub(str, wordEnd(str, p) + 1, 3) = ".py"
  /\ ~IsWord(Ch(str, wordEnd(str, p) + 4))

\* pass 1, modified.replace(/\b([A-Za-z0-9_]+\.py)\b/g, ...), from i on: the
\* text up to the leftmost match, its replacement, and the rest
RECURSIVE tagSources(_, _)
tagSources(str, i) ==
  IF \A p \in i..Len(str) : ~sourceAt(str, p) THEN Sub(str, i, Len(str))
  ELSE LET p == CHOOSE a \in i..Len(str) :
                  sourceAt(str, a) /\ \A b \in i..(a - 1) : ~sourceAt(str, b)
           e == wordEnd(str, p) + 3
       IN  Sub(str, i, p - i) \o logfileSpan(SubSeq(str, p, e))
           \o tagSources(str, e + 1)

\* String.prototype.toUpperCase
RECURSIVE toUpperCase(_)
toUpperCase(str) ==
  IF str = "" THEN ""
  ELSE (IF At(str, 1) \in Chars(Lower)
          THEN At(Upper, IndexOf(Lower, At(str, 1)))
          ELSE At(str, 1))
       \o toUpperCase(Sub(str, 2, Len(str)))

\* the alternatives of the level pattern in their order; the i flag makes the
\* match one of upper-cased texts
Levels ==
  <<"DEBUG", "INFO", "WARNING", "ERROR", "CRITICAL", "SUCCESS", "FAILED",
    "CONNECTED", "SSE STREAM CLOSED">>

\* state.levelClasses[key] || 'info'
levelClass(key) ==
  CASE key = "DEBUG"    -> "debug"
    [] key = "INFO"     -> "info"
    [] key = "WARNING"  -> "warning"
    [] key = "ERROR"    -> "error"
    [] key = "CRITICAL" -> "critical"
    [] key = "SUCCESS"  -> "success"
    [] OTHER            -> "info"

\* the replacement of one match m of pass 2
loglvlSpan(m) ==
  LET key == toUpperCase(m)
  IN  "<span class=\"loglvl " \o levelClass(key) \o "\">" \o key \o "</span>"

\* the alternatives that match at p: a \b, the text, whatever its case, and
\* a \b
levelsAt(str, p) ==
  IF IsWord(Ch(str, p)) /\ ~IsWord(Ch(str, p - 1))
    THEN {n \in 1..Len(Levels) :
            /\ ~IsWord(Ch(str, p + Len(Levels[n])))
            /\ toUpperCase(Sub(str, p, Len(Levels[n]))) = Levels[n]}
    ELSE {}

\* pass 2, modified.replace(/\b(DEBUG|...|SSE stream closed)\b/gi, ...), from
\* i on: the text up to the leftmost match, where the first alternative that
\* matches is taken, its replacement, and the rest
RECURSIVE tagLevels(_, _)
tagLevels(str, i) ==
  IF \A p \in i..Len(str) : levelsAt(str, p) = {} THEN Sub(str, i, Len(str))
  ELSE LET p == CHOOSE a \in i..Len(str) :
                  /\ levelsAt(str, a) # {}
                  /\ \A b \in i..(a - 1) : levelsAt(str, b) = {}
           n == CHOOSE a \in levelsAt(str, p) :
                  \A b \in levelsAt(str, p) : a <= b
           e == p + Len(Levels[n]) - 1
       IN  Sub(str, i, p - i) \o loglvlSpan(SubSeq(str, p, e))
           \o tagLevels(str, e + 1)

\* chunk.replace(/^\d+/, ...): the digits a chunk starts with
lineNumber(chunk) ==
  LET e == digitEnd(chunk, 1)
  IN  IF e >= 1
        THEN "<span class=\"line-number\">" \o SubSeq(chunk, 1, e) \o "</span>"
             \o Sub(chunk, e + 1, Len(chunk))
        ELSE chunk

\* /\b\d+\b/ matches at p: the greedy \d+ takes a whole run of digits, which
\* must start at a \b and end at one
numberAt(str, p) ==
  /\ IsDigit(Ch(str, p))
  /\ ~IsWord(Ch(str, p - 1))
  /\ ~IsWord(Ch(str, digitEnd(str, p) + 1))

\* chunk.replace(/\b\d+\b/g, ...) from i on
RECURSIVE numbers(_, _)
numbers(str, i) ==
  IF \A p \in i..Len(str) : ~numberAt(str, p) THEN Sub(str, i, Len(str))
  ELSE LET p == CHOOSE a \in i..Len(str) :
                  numberAt(str, a) /\ \A b \in i..(a - 1) : ~numberAt(str, b)
           e == digitEnd(str, p)
       IN  Sub(str, i, p - i)
           \o "<span class=\"number\">" \o SubSeq(str, p, e) \o "</span>"
           \o numbers(str, e + 1)

\* the callback of map() for an even chunk, a text between two tags
highlightChunk(chunk) == numbers(lineNumber(chunk), 1)

\* the end of the match of /<[^>]+>/ that starts at p, 0 when there is none:
\* a "<", at least one character that is not ">", and the first ">" after them
tagEnd(html, p) ==
  IF Ch(html, p) = "<" /\ Ch(html, p + 1) # "" /\ Ch(html, p + 1) # ">"
    THEN Find(html, ">", p + 2)
    ELSE 0

\* the start of the first tag at or after i, 0 when there is none
nextTag(html, i) ==
  IF \E p \in i..Len(html) : tagEnd(html, p) # 0
    THEN CHOOSE p \in i..Len(html) :
           tagEnd(html, p) # 0 /\ \A q \in i..(p - 1) : tagEnd(html, q) = 0
    ELSE 0

\* the whole text from i on mapped as one even chunk, tags and all
highlightFrom_tagsToo(html, i) == highlightChunk(Sub(html, i, Len(html)))

\* html.split(/(<[^>]+>)/g).map(...).join('') from i on: the text up to the
\* next tag is an even chunk, the tag an odd one
RECURSIVE highlightFrom(_, _)
highlightFrom(html, i) ==
  LET p == nextTag(html, i)
  IN  IF p = 0 THEN highlightChunk(Sub(html, i, Len(html)))
      ELSE highlightChunk(Sub(html, i, p - i))
           \o SubSeq(html, p, tagEnd(html, p))
           \o highlightFrom(html, tagEnd(html, p) + 1)

highlightNumbersOutsideTags(html) == highlightFrom(html, 1)

processLogLine(line) ==
  highlightNumbersOutsideTags(tagLevels(tagSources(line, 1), 1))

\* ------------------------------------------------------------------ history
\* deco: the line the decoration functions are applied to, the functions
\*       applied so far (ops, passes of them), the text the last of them was
\*       given (input) and what it returned (html, or hue); the stream and
\*       view specifications number their lines and leave it alone
NoDeco ==
  [line |-> "", html |-> "", passes |-> 0, hue |-> -1, input |-> "",
   ops |-> <<>>]

\* last: the callback turn that led to the current state and its input, with
\*       what the turn found: the readyState of state.eventSource ("none"
\*       when it was null) and the length of the buffer; reset: the attempt
\*       counter found by the stop() of this turn, or by the stop() of the
\*       turn right before this start(), -1 in every other turn; failed:
\*       the value of `fails` an open event found, -1 in every other turn;
\*       jumped: whether the view was user-scrolled (1) or pinned (0) when
\*       the jump to bottom of this turn, or of the turn right before this
\*       message, was made, -1 in every other turn; timers: the debounce
\*       timers pending when this scroll or wheel event was dispatched, -1
\*       in every other turn; gaveUp: whether this start() or toggle() found
\*       the client given up (1: the console flagged off by reconnect() with
\*       the counter exhausted, no channel and no timer left) or not (0), -1
\*       in every other turn
\* pushed: the number of non-empty lines the server has pushed
\* intent: what the user last asked for ("run": start()/toggle() on,
\*       "stop": stop()/toggle() off)
\* fails: the connection attempts that failed in a row since a user start
\*       made with the counter at 0 and no reconnect timer pending; -1 when
\*       no such run is in progress (a user action or a successful open
\*       ended it)
Ready(s) == IF s.eventSource = Null THEN "none" ELSE s.chan[s.eventSource]

B(b) == IF b THEN 1 ELSE 0

\* the turns that jump to the bottom: the button's click and forceBottom()
Jumps == {"click", "forceBottom"}

Turn(op, arg) ==
  [op |-> op, arg |-> arg,
   open |-> Ready(state), buffered |-> Len(state.logBuffer),
   reset |-> IF op = "stop" THEN state.reconnectAttempts
             ELSE IF op = "start" /\ last.op = "stop" THEN last.reset
             ELSE -1,
   failed |-> IF op = "open" THEN fails ELSE -1,
   jumped |-> IF op \in Jumps THEN B(~Pinned(state))
              ELSE IF op = "message" /\ last.op \in Jumps THEN last.jumped
              ELSE -1,
   timers |-> IF op \in {"scroll", "wheel"} THEN state.debounceTimers ELSE -1,
   gaveUp |-> IF op \in {"start", "toggle"}
                THEN B(/\ ~state.isConsoleOn
                       /\ state.reconnectAttempts >= maxReconnect
                       /\ state.eventSource = Null
                       /\ state.reconnectTimers = 0)
                ELSE -1]

FreshRun ==
  IF state.reconnectAttempts = 0 /\ state.reconnectTimers = 0
    THEN B(state.raises) ELSE -1

\* the bounds on what a turn may leave pending
Bounded(s) ==
  /\ s.reconnectTimers <= MaxTimers
  /\ Len(s.chan) <= MaxChannels

Init ==
  /\ \E raises \in BOOLEAN : state = state0(raises)
  /\ last = [op |-> "new", arg |-> 0, open |-> "none", buffered |-> 0,
             reset |-> -1, failed |-> -1, jumped |-> -1,
             timers |-> -1, gaveUp |-> -1]
  /\ pushed = 0
  /\ intent = "none"
  /\ fails = -1
  /\ deco = NoDeco

\* the sizes setFont() is called with: below, at, within and above the range
Sizes == {1, 2, 12, 24, 25}

\* ------------------------------------------------------------------ actions
DoInit ==
  /\ ~state.inited
  /\ \E found \in BOOLEAN, img \in BOOLEAN :
       /\ state' = init(state, found, img)
       /\ last' = Turn("init", B(found))
  /\ UNCHANGED <<pushed, intent, fails, deco>>

Autostart ==
  /\ state.autostart = "pending"
  /\ \E t \in BOOLEAN :
       /\ state' = autostartReply(state, t)
       /\ Bounded(state')
       /\ last' = Turn("autostart", B(t))
       /\ intent' = IF t THEN "run" ELSE intent
       /\ fails' = IF t THEN FreshRun ELSE fails
  /\ UNCHANGED <<pushed, deco>>

Start ==
  /\ state' = start(state)
  /\ Bounded(state')
  /\ last' = Turn("start", 0)
  /\ fails' = FreshRun
  /\ intent' = "run"
  /\ UNCHANGED <<pushed, deco>>

Stop ==
  /\ state' = stop(state)
  /\ last' = Turn("stop", 0)
  /\ intent' = "stop"
  /\ fails' = -1
  /\ UNCHANGED <<pushed, deco>>

Toggle ==
  /\ state' = toggle(state)
  /\ Bounded(state')
  /\ last' = Turn("toggle", 0)
  /\ fails' = IF state.isConsoleOn THEN -1 ELSE FreshRun
  /\ intent' = IF state.isConsoleOn THEN "stop" ELSE "run"
  /\ UNCHANGED <<pushed, deco>>

Open ==
  /\ \E c \in DOMAIN state.chan :
       /\ state.chan[c] = "CONNECTING"
       /\ state' = onopen(state, c)
       /\ last' = Turn("open", c)
  /\ fails' = -1
  /\ UNCHANGED <<pushed, intent, deco>>

Error ==
  /\ \E c \in DOMAIN state.chan, ready \in {"CLOSED", "CONNECTING"} :
       /\ state' = onerror(state, c, ready)
       /\ Bounded(state')
       /\ last' = Turn("error", B(ready = "CLOSED"))
       /\ fails' = IF fails >= 0 /\ ready = "CLOSED" THEN fails + 1 ELSE fails
  /\ UNCHANGED <<pushed, intent, deco>>

ReconnectTimer ==
  /\ state.reconnectTimers > 0
  /\ state' = reconnectTimer(state)
  /\ Bounded(state')
  /\ last' = Turn("reconnectTimer", 0)
  /\ fails' = IF fails >= 0 /\ state.raises THEN fails + 1 ELSE fails
  /\ UNCHANGED <<pushed, intent, deco>>

\* a message event of an open channel carrying the next line
Message(maxPushed) ==
  /\ \E c \in DOMAIN state.chan : state.chan[c] = "OPEN"
  /\ pushed < maxPushed
  /\ state' = appendLogs(state, pushed + 1)
  /\ last' = Turn("message", pushed + 1)
  /\ pushed' = pushed + 1
  /\ UNCHANGED <<intent, fails, deco>>

\* a message event whose payload is empty after trim()
KeepAlive ==
  /\ \E c \in DOMAIN state.chan : state.chan[c] = "OPEN"
  /\ \E raw \in {EmptyPayload, Blank} :
       /\ state' = appendLogs(state, raw)
       /\ last' = Turn("message", raw)
  /\ UNCHANGED <<pushed, intent, fails, deco>>

Scroll ==
  /\ state.logConsole
  /\ \E pos \in BOOLEAN :
       /\ state' = onScroll(state, pos)
       /\ last' = Turn("scroll", B(pos))
  /\ UNCHANGED <<pushed, intent, fails, deco>>

Wheel ==
  /\ state.logConsole
  /\ state' = onWheel(state)
  /\ last' = Turn("wheel", 0)
  /\ UNCHANGED <<pushed, intent, fails, deco>>

DebounceTimer ==
  /\ state.debounceTimers > 0
  /\ state' = debounceTimer(state)
  /\ last' = Turn("debounceTimer", 0)
  /\ UNCHANGED <<pushed, intent, fails, deco>>

Click ==
  /\ state.scrollBtn = "block"
  /\ state' = onClick(state)
  /\ last' = Turn("click", 0)
  /\ UNCHANGED <<pushed, intent, fails, deco>>

ForceBottom ==
  /\ state.raf < MaxRaf
  /\ state' = forceBottom(state)
  /\ last' = Turn("forceBottom", 0)
  /\ UNCHANGED <<pushed, intent, fails, deco>>

\* the requestAnimationFrame callback of forceBottom()
Raf ==
  /\ state.raf > 0
  /\ state' = scrollToBottom([state EXCEPT !.raf = @ - 1])
  /\ last' = Turn("raf", 0)
  /\ UNCHANGED <<pushed, intent, fails, deco>>

ClearLogs ==
  /\ state.logConsole
  /\ state' = clearLogs(state)
  /\ last' = Turn("clearLogs", 0)
  /\ UNCHANGED <<pushed, intent, fails, deco>>

SetFont ==
  /\ \E px \in Sizes :
       /\ state' = setFont(state, px)
       /\ last' = Turn("setFont", px)
  /\ UNCHANGED <<pushed, intent, fails, deco>>

AdjustFont ==
  /\ \E delta \in {-1, 1} :
       /\ state' = adjustFont(state, delta)
       /\ state'.fontSize \in (2 - MaxOver)..(24 + MaxOver)
       /\ last' = Turn("adjustFont", delta)
  /\ UNCHANGED <<pushed, intent, fails, deco>>

\* ----------------------------------------------------------- specifications
\* every callback of the stream and of the view
Next ==
  \/ DoInit
  \/ Autostart
  \/ Start
  \/ Stop
  \/ Toggle
  \/ Open
  \/ Error
  \/ ReconnectTimer
  \/ Message(ConnPushed)
  \/ KeepAlive
  \/ Scroll
  \/ Wheel
  \/ DebounceTimer
  \/ Click
  \/ ForceBottom
  \/ Raf
  \/ ClearLogs

Spec == Init /\ [][Next]_vars

\* the connection lifecycle: every connection callback, and the message and
\* wheel events that fill the buffer stop() clears
NextConn ==
  \/ DoInit
  \/ Autostart
  \/ Start
  \/ Stop
  \/ Toggle
  \/ Open
  \/ Error
  \/ ReconnectTimer
  \/ Message(ConnPushed)
  \/ KeepAlive
  \/ Wheel

SpecConn == Init /\ [][NextConn]_vars

\* the display pipeline: every callback that reads or writes the scroll flags,
\* the buffer or the rendered log, over a channel that stays healthy
NextView ==
  \/ DoInit
  \/ Autostart
  \/ Start
  \/ Stop
  \/ Open
  \/ Message(MaxPushed)
  \/ KeepAlive
  \/ Scroll
  \/ Wheel
  \/ DebounceTimer
  \/ Click
  \/ ForceBottom
  \/ Raf
  \/ ClearLogs

SpecView == Init /\ [][NextView]_vars

\* The display pipeline next to its caps.  The initial states are states the
\* console is in after init() found its elements, start(), the channel's open
\* event and `pushed` messages:
\*   buffering: a wheel event came first, so every line is in the buffer;
\*   rendering: the view stayed pinned, the log holds the latest n lines
\*              (the older ones were trimmed by the cap or cleared by
\*              #clearLogs).
Lines(from, to) == [k \in 1..(to - from + 1) |-> from + k - 1]

Streaming ==
  [state0(FALSE) EXCEPT !.inited = TRUE, !.logConsole = TRUE, !.toggleImg = "init",
                 !.bufferIndicator = TRUE, !.scrollBtn = "none",
                 !.isConsoleOn = TRUE, !.eventSource = 1, !.chan = <<"OPEN">>,
                 !.fontPx = <<12>>]

Buffering(n) ==
  [Streaming EXCEPT !.isUserScrolling = TRUE, !.autoScroll = FALSE,
                    !.scrollTimeout = TRUE, !.debounceTimers = 1,
                    !.logBuffer = Lines(1, n), !.indicator = n]

Rendering(p, n) == [Streaming EXCEPT !.innerHTML = Lines(p - n + 1, p)]

InitCap ==
  /\ pushed \in (maxBufferSize - CapSlack)..maxBufferSize
  /\ \/ state = Buffering(pushed)
     \/ \E n \in (maxLines - 1 - CapSlack)..(maxLines - 1) :
          state = Rendering(pushed, n)
  /\ last = [op |-> "message", arg |-> pushed, open |-> "OPEN",
             buffered |-> Len(state.logBuffer) - B(state.logBuffer # <<>>),
             reset |-> -1, failed |-> -1, jumped |-> -1,
             timers |-> -1, gaveUp |-> -1]
  /\ intent = "run"
  /\ fails = -1
  /\ deco = NoDeco

NextCap ==
  \/ Message(maxBufferSize + CapExtra)
  \/ Scroll
  \/ Wheel
  \/ DebounceTimer
  \/ Click

SpecCap == InitCap /\ [][NextCap]_vars

\* The font controls, in every browsing context: a desktop or mobile user
\* agent, with or without a size stored by an earlier page load, with or
\* without the range input.
InitFont ==
  /\ \E mobile \in BOOLEAN, stored \in {<<>>, <<2>>, <<16>>, <<24>>},
        slider \in {consoleFont, NoSlider} :
       state = [state0(FALSE) EXCEPT !.mobile = mobile, !.stored = stored,
                                     !.slider = slider]
  /\ last = [op |-> "new", arg |-> 0, open |-> "none", buffered |-> 0,
             reset |-> -1, failed |-> -1, jumped |-> -1,
             timers |-> -1, gaveUp |-> -1]
  /\ pushed = 0
  /\ intent = "none"
  /\ fails = -1
  /\ deco = NoDeco

NextFont ==
  \/ DoInit
  \/ SetFont
  \/ AdjustFont

SpecFont == InitFont /\ [][NextFont]_vars

\* ------------------------------------------------------------------- claims
\* the client has given up: reconnect() took its else branch and nothing is
\* left that would open a channel
GivenUp(s) ==
  /\ ~s.isConsoleOn
  /\ s.eventSource = Null
  /\ s.chan = <<>>
  /\ s.reconnectTimers = 0

\* no channel and no reconnect timer: Disconnected or GivenUp
Stopped(s) == s.eventSource = Null /\ s.reconnectTimers = 0

\* C1: in every reachable state at most one EventSource is not closed, and it
\* is the one state.eventSource refers to; start() on a client that holds a
\* channel closes it before it opens the new one.
C1_AtMostOneLiveChannel ==
  /\ Len(state.chan) <= 1
  /\ \A c \in DOMAIN state.chan : state.eventSource = c

\* start() ran while a channel was open, and a new channel is connecting
C1_Witness ==
  /\ last.op = "start"
  /\ last.open = "OPEN"
  /\ Ready(state) = "CONNECTING"

\* C3: after stop() no channel is opened and the attempt counter stays 0
\* until the user calls start() or toggle() again, also when a reconnect
\* delay was pending at the stop().
C3_StopCancelsReconnect ==
  (intent = "stop" /\ ~state.raises) =>
    /\ state.eventSource = Null
    /\ state.chan = <<>>
    /\ state.reconnectAttempts = 0

\* C4 as claimed: in a run of consecutive failures that began with a user
\* start at counter 0, the client has given up exactly when 5 attempts failed.
C4_GivenUpAfterFive ==
  (fails >= 0 /\ ~state.raises) => (fails >= 5 <=> GivenUp(state))

\* the failed attempt at which reconnect() finds the counter at maxReconnect:
\* a retry's increment follows its start(), so a failure raised inside
\* start() is judged one increment late
GiveUpAt(s) == IF s.raises THEN maxReconnect + 2 ELSE maxReconnect + 1

\* C4 as amended: in such a run (begun with no reconnect timer pending) the
\* client gives up at the 6th failed attempt in a row (the initial attempt and
\* maxReconnect retries) when the channel's error event reports the failures,
\* at the 7th when the EventSource constructor raises; until then it keeps
\* retrying, and once it has given up the console is flagged off and neither
\* a channel nor a reconnect timer is left.
C4_GivenUpAfterSix ==
  fails >= 0 =>
    /\ fails <= GiveUpAt(state)
    /\ fails < GiveUpAt(state) =>
         /\ state.isConsoleOn
         /\ state.eventSource # Null \/ state.reconnectTimers > 0
    /\ fails = GiveUpAt(state) =>
         /\ GivenUp(state)
         /\ last.op \in {"error", "reconnectTimer"}
              => state.toggleImg \in {"none", "off"}

\* the 6th failure in a row, reported by the error event, ended the retries
C4_Witness ==
  /\ ~state.raises
  /\ fails = maxReconnect + 1
  /\ last.op = "error"
  /\ GivenUp(state)
  /\ state.toggleImg = "off"

\* C9: from every reachable state, a second stop() right after a stop()
\* changes nothing.
C9_StopIdempotent == stop(stop(state)) = stop(state)

\* stop() has just closed an open channel and emptied a filled buffer
C9_Witness ==
  /\ last.op = "stop"
  /\ last.open = "OPEN"
  /\ last.buffered > 0
  /\ state.indicator = 0

\* C10: toggle() opens a channel when the client is Disconnected or GivenUp
\* and leaves none when it is connecting, open or reconnecting.
C10_ToggleFlips ==
  [][(last'.op = "toggle" /\ ~state.raises) =>
       IF Stopped(state)
         THEN state'.eventSource # Null
         ELSE state'.eventSource = Null /\ state'.chan = <<>>]_vars

\* a sequence of line numbers in arrival order, none twice
InArrivalOrder(seq) ==
  /\ \A i \in DOMAIN seq : seq[i] \in 1..pushed
  /\ \A i, j \in DOMAIN seq : i < j => seq[i] < seq[j]

\* C2: in every reachable state the rendered log followed by the buffered
\* queue is a subsequence of the pushed lines: in arrival order, none twice.
C2_RenderedThenBufferedInOrder ==
  InArrivalOrder(state.innerHTML \o state.logBuffer)

\* the turn `last'` names flushes the buffer: the button's click, the debounce
\* timer at the bottom, a scroll event at the bottom after user scrolling
Flushes ==
  \/ last'.op = "click"
  \/ last'.op = "debounceTimer" /\ state.atBottom
  \/ last'.op = "scroll" /\ last'.arg = 1 /\ state.isUserScrolling

\* C5: the buffer never holds more than maxBufferSize lines, and a line pushed
\* while the view is user-scrolled and the buffer is full evicts exactly the
\* oldest line and goes to the tail.
C5_BufferBounded ==
  /\ [](Len(state.logBuffer) <= maxBufferSize)
  /\ [][(/\ last'.op = "message"
         /\ trim(last'.arg) # EmptyPayload
         /\ ~Pinned(state)
         /\ Len(state.logBuffer) = maxBufferSize)
          => state'.logBuffer = Append(Tail(state.logBuffer), last'.arg)]_vars

\* a line was pushed onto a full buffer: line 1 is gone, the rest is in place
C5_Witness ==
  /\ last.op = "message"
  /\ last.buffered = maxBufferSize
  /\ Len(state.logBuffer) = maxBufferSize
  /\ state.logBuffer[1] = 2
  /\ state.logBuffer[maxBufferSize] = last.arg

\* C6: a message that arrives while the view is user-scrolled leaves the
\* rendered log alone and goes to the buffer; a flush appends the whole buffer
\* to the rendered log in its order, each line once, and empties the buffer.
C6_BufferThenFlush ==
  [][/\ (last'.op = "message" /\ ~Pinned(state))
          => /\ state'.innerHTML = state.innerHTML
             /\ (trim(last'.arg) # EmptyPayload /\ Len(state.logBuffer) < maxBufferSize)
                  => state'.logBuffer = Append(state.logBuffer, last'.arg)
     /\ Flushes
          => /\ state'.innerHTML = state.innerHTML \o state.logBuffer
             /\ state'.logBuffer = <<>>
             /\ state'.indicator = 0]_vars

\* a flush has moved two buffered lines behind an earlier rendered line
C6_Witness ==
  /\ last.op \in {"click", "debounceTimer", "scroll"}
  /\ last.buffered = 2
  /\ state.innerHTML = <<1, 2, 3>>
  /\ state.logBuffer = <<>>

\* C7: a line pushed while the view is pinned is appended to the rendered
\* log, which then holds its most recent maxLines lines: a log of exactly
\* maxLines lines is not trimmed.
C7_PinnedKeepsLatestMaxLines ==
  [][(/\ last'.op = "message"
      /\ trim(last'.arg) # EmptyPayload
      /\ Pinned(state))
       => state'.innerHTML =
            LastN(Append(state.innerHTML, last'.arg), maxLines)]_vars

\* C8: at the end of every callback turn the rendered log holds at most
\* maxLines lines.
C8_RenderedBounded == Len(state.innerHTML) <= maxLines

\* C11: a stop() turn leaves the rendered log as it was, empties the buffer
\* and hides the "N new logs" indicator before the turn ends.
C11_StopKeepsLogClearsBuffer ==
  [][last'.op = "stop" =>
       /\ state'.innerHTML = state.innerHTML
       /\ state'.logBuffer = <<>>
       /\ state'.indicator = 0]_vars

\* stop() ran with a line rendered and two lines buffered: the line is still
\* rendered, the buffer is empty, the indicator is hidden
C11_Witness ==
  /\ last.op = "stop"
  /\ last.buffered = 2
  /\ state.innerHTML = <<1>>
  /\ state.logBuffer = <<>>
  /\ state.indicator = 0

\* C12: from every reachable state, stop() followed at once by start() leaves
\* the attempt counter at 0, whatever stop() found, in the state the two calls
\* leave and at the end of a start() turn that follows a stop() turn.
C12_StopStartResetsAttempts ==
  /\ start(stop(state)).reconnectAttempts = 0
  /\ (last.op = "start" /\ last.reset >= 0) => state.reconnectAttempts = 0

\* stop() found the counter exhausted, start() followed: a channel is
\* connecting and the counter is 0
C12_Witness ==
  /\ last.op = "start"
  /\ last.reset = maxReconnect
  /\ Ready(state) = "CONNECTING"
  /\ state.reconnectAttempts = 0

\* C13: an open event leaves the client Open (state.eventSource is open and
\* is the only channel that is not closed) with the attempt counter at 0; when
\* it ends a run of k failed attempts in a row, for every k up to
\* maxReconnect - 1, no reconnect timer is left either.
C13_OpenResetsAttempts ==
  last.op = "open" =>
    /\ Ready(state) = "OPEN"
    /\ Len(state.chan) = 1
    /\ state.isConsoleOn
    /\ state.reconnectAttempts = 0
    /\ last.failed \in 0..(maxReconnect - 1) => state.reconnectTimers = 0

\* the channel closed maxReconnect - 1 times in a row and the next attempt
\* succeeded
C13_Witness ==
  /\ last.op = "open"
  /\ last.failed = maxReconnect - 1
  /\ Ready(state) = "OPEN"
  /\ state.reconnectAttempts = 0

\* C14: an error event of the live channel, here an open one, while the
\* console is flagged on closes the channel and either schedules a reconnect
\* or ends the retries, whether the channel reports itself closed or
\* connecting again.
C14_ErrorAlwaysReconnects ==
  [][(last'.op = "error" /\ Ready(state) = "OPEN" /\ state.isConsoleOn) =>
       /\ state'.eventSource = Null
       /\ state'.chan = <<>>
       /\ \/ state'.reconnectTimers = state.reconnectTimers + 1
          \/ ~state'.isConsoleOn]_vars

\* C15: a message whose payload is empty or white space only changes nothing,
\* in every scroll state: the rendered log, the buffer, the indicator, the
\* scroll flags and everything else are as they were.
C15_EmptyPayloadDiscarded ==
  [][(last'.op = "message" /\ last'.arg \in {EmptyPayload, Blank})
       => state' = state]_vars

\* a payload of white space arrived while the view was user-scrolled with a
\* line rendered and a line buffered: both are in place
C15_Witness ==
  /\ last.op = "message"
  /\ last.arg = Blank
  /\ ~Pinned(state)
  /\ state.innerHTML = <<1>>
  /\ state.logBuffer = <<2>>
  /\ state.indicator = 1

\* C16: a jump to bottom (the button's click or forceBottom()) on a console
\* that has its element leaves the view pinned when its turn ends, and a line
\* delivered in the very next turn is rendered, not buffered.
C16_JumpPinsAtOnce ==
  /\ (last.op \in Jumps /\ state.logConsole) => Pinned(state)
  /\ (last.op = "message" /\ last.jumped >= 0 /\ trim(last.arg) # EmptyPayload
        /\ state.logConsole)
       => /\ state.innerHTML # <<>>
          /\ state.innerHTML[Len(state.innerHTML)] = last.arg
          /\ Len(state.logBuffer) = last.buffered

\* a jump to bottom was made while the view was user-scrolled with the
\* debounce timer pending, and the line of the next turn was rendered
C16_Witness ==
  /\ last.op = "message"
  /\ last.jumped = 1
  /\ state.debounceTimers > 0
  /\ state.innerHTML # <<>>
  /\ state.innerHTML[Len(state.innerHTML)] = last.arg
  /\ last.arg = pushed

\* C17 as claimed: every scroll event and every wheel event leaves the view
\* user-scrolled when its turn ends, whatever the viewport position.
C17_ScrollMarksUserScrolled ==
  last.op \in {"scroll", "wheel"} => ~Pinned(state)

\* C17 as amended: every wheel event, and every scroll event dispatched with
\* the viewport beyond the bottom threshold, leaves the view user-scrolled
\* with the debounce timer pending when its turn ends, and a line that arrives
\* in the next turn is buffered; a scroll event dispatched within the
\* threshold leaves the view pinned.
C17_ScrollAwayMarksUserScrolled ==
  /\ [](/\ last.op = "wheel" => (~Pinned(state) /\ state.scrollTimeout)
        /\ last.op = "scroll" =>
             /\ state.scrollTimeout
             /\ Pinned(state) <=> last.arg = 1)
  /\ [][(/\ last.op \in {"scroll", "wheel"}
         /\ ~Pinned(state)
         /\ last'.op = "message"
         /\ trim(last'.arg) # EmptyPayload)
          => /\ state'.innerHTML = state.innerHTML
             /\ state'.logBuffer =
                  LastN(Append(state.logBuffer, last'.arg), maxBufferSize)]_vars

\* a scroll event away from the bottom ended the pinned view, and the line
\* that arrived before the debounce timer fired is in the buffer
C17_Witness ==
  /\ last.op = "message"
  /\ last.buffered = 0
  /\ state.logBuffer = <<pushed>>
  /\ state.innerHTML = <<1>>
  /\ ~state.atBottom
  /\ state.scrollTimeout

\* C18 as claimed: when the debounce timer fires with the viewport within the
\* bottom threshold the view becomes pinned and the buffer is flushed into the
\* rendered log; otherwise the view is user-scrolled afterwards and the buffer
\* and the rendered log are unchanged.
C18_TimerPinsOrStaysUserScrolled ==
  [][last'.op = "debounceTimer" =>
       IF state.atBottom
         THEN /\ Pinned(state')
              /\ state'.innerHTML = state.innerHTML \o state.logBuffer
              /\ state'.logBuffer = <<>>
         ELSE /\ ~Pinned(state')
              /\ state'.innerHTML = state.innerHTML
              /\ state'.logBuffer = state.logBuffer]_vars

\* C18 as amended: when the debounce timer fires with the viewport within the
\* bottom threshold the view becomes pinned and the buffer is flushed into the
\* rendered log; otherwise the scroll flags, the buffer and the rendered log
\* are left as they were: user-scrolled if the view was, pinned if a jump to
\* bottom pinned it while the timer was pending.
C18_TimerPinsOrLeavesAlone ==
  [][last'.op = "debounceTimer" =>
       IF state.atBottom
         THEN /\ Pinned(state')
              /\ state'.innerHTML = state.innerHTML \o state.logBuffer
              /\ state'.logBuffer = <<>>
              /\ state'.indicator = 0
         ELSE /\ Pinned(state') <=> Pinned(state)
              /\ state'.isUserScrolling = state.isUserScrolling
              /\ state'.autoScroll = state.autoScroll
              /\ state'.innerHTML = state.innerHTML
              /\ state'.logBuffer = state.logBuffer]_vars

\* the timer fired at the bottom with two lines buffered behind a rendered
\* one: the view is pinned and the three lines are rendered
C18_Witness ==
  /\ last.op = "debounceTimer"
  /\ last.buffered = 2
  /\ Pinned(state)
  /\ state.innerHTML = <<1, 2, 3>>
  /\ state.logBuffer = <<>>
  /\ state.debounceTimers = 0

\* the range setFont() clamps to: the slider's, 2..24 without a slider
FontRange(s) ==
  IF s.slider.present THEN s.slider.min..s.slider.max ELSE 2..24

\* C19: after any sequence of init(), setFont(px) and adjustFont(delta) calls
\* the font size is within the slider's bounds, and so is the size #logout
\* shows.
C19_FontWithinBounds ==
  /\ state.fontSize \in FontRange(state)
  /\ state.fontPx # <<>> => state.fontPx[1] \in FontRange(state)

\* C20: after every setFont(px) and every adjustFont(delta) the item stored
\* under fontKey is the current font size.
C20_FontChangeStored ==
  last.op \in {"setFont", "adjustFont"} => state.stored = <<state.fontSize>>

\* C23: at most one debounce timer is pending, the one state.scrollTimeout
\* refers to; every scroll and every wheel event leaves exactly one pending,
\* also when one was pending before.
C23_OneDebounceTimer ==
  /\ state.debounceTimers <= 1
  /\ state.scrollTimeout <=> state.debounceTimers = 1
  /\ last.op \in {"scroll", "wheel"} => state.debounceTimers = 1

\* a wheel event arrived while the timer of an earlier event was pending:
\* one timer is pending
C23_Witness ==
  /\ last.op = "wheel"
  /\ last.timers = 1
  /\ state.debounceTimers = 1
  /\ state.scrollTimeout

\* C24: the console moves the view to the bottom only while the view is
\* pinned: a message or the animation frame of forceBottom() that finds the
\* view user-scrolled leaves the position alone, and every turn in which the
\* position changes, other than the user's own scroll event and the emptying
\* of the log, ends pinned at the bottom.
C24_MovesOnlyWhilePinned ==
  [][/\ (last'.op \in {"message", "raf"} /\ ~Pinned(state))
          => state'.atBottom = state.atBottom
     /\ (last'.op \notin {"scroll", "clearLogs"}
           /\ state'.atBottom # state.atBottom)
          => (Pinned(state') /\ state'.atBottom)]_vars

\* the animation frame of forceBottom() ran after the user had scrolled away
\* again: the view is still away from the bottom
C24_Witness ==
  /\ last.op = "raf"
  /\ ~Pinned(state)
  /\ ~state.atBottom
  /\ state.raf = 0

\* C30: at the end of every callback turn isUserScrolling is true exactly when
\* autoScroll is false.
C30_FlagsComplementary == state.isUserScrolling <=> ~state.autoScroll

\* a scroll event away from the bottom ended a pinned view: both flags flipped
C30_Witness ==
  /\ last.op = "scroll"
  /\ last.arg = 0
  /\ last.timers = 0
  /\ state.isUserScrolling
  /\ ~state.autoScroll

\* hueFromString() applied, twice, to the names of source files
Stems == {"", "a", "io", "web", "main", "utils_"}

Names == {x \o y \o z \o ".py" : x \in Stems, y \in Stems, z \in Stems}

InitHue ==
  /\ state = state0(FALSE)
  /\ last = [op |-> "new", arg |-> 0, open |-> "none", buffered |-> 0,
             reset |-> -1, failed |-> -1, jumped |-> -1,
             timers |-> -1, gaveUp |-> -1]
  /\ pushed = 0
  /\ intent = "none"
  /\ fails = -1
  /\ \E name \in Names : deco = [NoDeco EXCEPT !.line = name]

Hue ==
  /\ deco.passes < MaxPasses
  /\ deco' = [deco EXCEPT !.hue = hueFromString(deco.line),
                          !.passes = @ + 1]
  /\ UNCHANGED <<state, last, pushed, intent, fails>>

NextHue == Hue

SpecHue == InitHue /\ [][NextHue]_vars

\* The retry loop alone: manual start() calls, the channel's open and error
\* events and the reconnect timers, with no stop() and no toggle().
NextRetry ==
  \/ Start
  \/ Open
  \/ Error
  \/ ReconnectTimer

SpecRetry == Init /\ [][NextRetry]_vars

\* C28: under any interleaving of manual start() calls, channel errors and
\* reconnect-timer firings the attempt counter stays within 0..maxReconnect.
C28_AttemptsWithinBudget ==
  ~state.raises => state.reconnectAttempts \in 0..maxReconnect

\* C29: when start() or toggle() restarts a client that had given up, with no
\* stop() in between, and the new channel fails before it opens, a reconnect
\* is scheduled and the console stays flagged on.
C29_RestartHasFreshBudget ==
  [][(/\ last.op \in {"start", "toggle"}
      /\ last.gaveUp = 1
      /\ ~state.raises
      /\ last'.op = "error"
      /\ last'.arg = 1)
       => /\ state'.reconnectTimers = state.reconnectTimers + 1
          /\ state'.isConsoleOn]_vars

\* 31^k and c * 31^k modulo 2^32, and the sum of two such numbers
RECURSIVE Pow31(_)
Pow31(k) == IF k = 0 THEN <<0, 1>> ELSE wrap31(Pow31(k - 1), 0)

Times(h, c) ==
  LET low == h[2] * c
  IN  <<(h[1] * c + low \div Half) % Half, low % Half>>

Plus(g, h) ==
  LET low == g[2] + h[2]
  IN  <<(g[1] + h[1] + low \div Half) % Half, low % Half>>

\* the polynomial str[1]*31^(n-1) + ... + str[n]*31^0 modulo 2^32, term by term
RECURSIVE Polynomial(_, _)
Polynomial(str, i) ==
  IF i > Len(str) THEN <<0, 0>>
  ELSE Plus(Times(Pow31(Len(str) - i), charCodeAt(str, i)),
            Polynomial(str, i + 1))

\* C27: hueFromString returns an integer in 0..359, the polynomial hash of the
\* character codes with multiplier 31 modulo 2^32, taken modulo 360; a second
\* call with the same string returns the same hue.
C27_HueIsPolynomialHash ==
  /\ [](deco.passes > 0 =>
          /\ deco.hue \in 0..359
          /\ deco.hue = mod360(Polynomial(deco.line, 1)))
  /\ [][deco.passes > 0 => deco'.hue = deco.hue]_vars

\* "main.py": the hash passes 2^32 at its seventh character and the hue is 182
C27_Witness ==
  /\ deco.line = "main.py"
  /\ deco.passes = 2
  /\ deco.hue = 182

\* processLogLine() and highlightNumbersOutsideTags() applied, one after the
\* other, to lines made of one or two tokens: numbers, words, file names,
\* levels, tags (one with a number in it) and a lone "<", side by side or a
\* space apart
Tokens ==
  {"12", "3", "7a", "x", "worker.py", "ERROR", "failed", "<b>", "<i 5>", "<"}

LogLines ==
  Tokens \cup {a \o s \o b : a \in Tokens, s \in {"", " "}, b \in Tokens}
         \cup {"ERROR boom at worker.py line 12"}

InitDeco ==
  /\ state = state0(FALSE)
  /\ last = [op |-> "new", arg |-> 0, open |-> "none", buffered |-> 0,
             reset |-> -1, failed |-> -1, jumped |-> -1,
             timers |-> -1, gaveUp |-> -1]
  /\ pushed = 0
  /\ intent = "none"
  /\ fails = -1
  /\ \E line \in LogLines : deco = [NoDeco EXCEPT !.line = line, !.html = line]

Decorate ==
  /\ deco.passes < MaxPasses
  /\ deco' = [deco EXCEPT !.input = deco.html,
                          !.html = processLogLine(deco.html),
                          !.ops = Append(@, "processLogLine"),
                          !.passes = @ + 1]
  /\ UNCHANGED <<state, last, pushed, intent, fails>>

Highlight ==
  /\ deco.passes < MaxPasses
  /\ deco' = [deco EXCEPT !.input = deco.html,
                          !.html = highlightNumbersOutsideTags(deco.html),
                          !.ops = Append(@, "highlightNumbersOutsideTags"),
                          !.passes = @ + 1]
  /\ UNCHANGED <<state, last, pushed, intent, fails>>

NextDeco ==
  \/ Decorate
  \/ Highlight

SpecDeco == InitDeco /\ [][NextDeco]_vars

\* the number of source bubbles that open in a text
Bubbles(html) == Count(html, logfileOpen, 1)

\* C21: when a line with a source-file token is decorated and the decorated
\* line is decorated again, the second decoration leaves the token's markup
\* as the first made it: the line has as many source bubbles as before and no
\* source bubble opens right inside another one.
C21_SourceTaggingIdempotent ==
  (/\ deco.ops = <<"processLogLine", "processLogLine">>
   /\ Bubbles(deco.input) > 0)
    => /\ Bubbles(deco.html) = Bubbles(deco.input)
       /\ Find(deco.html, "\">" \o logfileOpen, 1) = 0

\* the tags of a text from i on, in their order
RECURSIVE Tags(_, _)
Tags(html, i) ==
  IF nextTag(html, i) = 0 THEN <<>>
  ELSE <<SubSeq(html, nextTag(html, i), tagEnd(html, nextTag(html, i)))>>
       \o Tags(html, tagEnd(html, nextTag(html, i)) + 1)

\* the tags of a number span; an opening one may end a tag that a lone "<" of
\* the text begins
NumberTags ==
  {"<span class=\"line-number\">", "<span class=\"number\">", "</span>"}

EndsNumberTag(tag) ==
  \E t \in NumberTags :
    /\ Len(tag) >= Len(t)
    /\ SubSeq(tag, Len(tag) - Len(t) + 1, Len(tag)) = t

\* the tags old are among the tags new, in their order and unchanged, and
\* every other tag of new belongs to a number span
RECURSIVE KeepsTags(_, _)
KeepsTags(old, new) ==
  IF new = <<>> THEN old = <<>>
  ELSE \/ old # <<>> /\ Head(old) = Head(new)
                     /\ KeepsTags(Tail(old), Tail(new))
       \/ EndsNumberTag(Head(new)) /\ KeepsTags(old, Tail(new))

\* C22: numeric highlighting leaves every tag of its input unchanged,
\* character for character, the digits of a hue in a style attribute
\* included: the tags of the input are among the tags of the output, in their
\* order, and every other tag of the output belongs to a number span.
C22_HighlightKeepsTags ==
  (deco.ops # <<>> /\ deco.ops[Len(deco.ops)] = "highlightNumbersOutsideTags")
    => KeepsTags(Tags(deco.input, 1), Tags(deco.html, 1))

\* a decorated line with a hue in a style attribute and a number after it,
\* highlighted once more
C22_Witness ==
  /\ deco.ops = <<"processLogLine", "highlightNumbersOutsideTags">>
  /\ deco.line = "worker.py 12"
  /\ Find(deco.input, "style=\"--h:9\"", 1) # 0
  /\ Find(deco.html, "style=\"--h:9\"", 1) # 0
  /\ deco.html # deco.input

lineNumberOpen == "<span class=\"line-number\">"

numberOpen == "<span class=\"number\">"

\* C26: when a raw line is highlighted, each number gets one class: no number
\* span opens right inside a line-number span or the other way round, and
\* only a line that starts with a digit has a line-number span, and has one.
C26_OneClassPerNumber ==
  deco.ops = <<"highlightNumbersOutsideTags">>
    => /\ Find(deco.html, lineNumberOpen \o numberOpen, 1) = 0
       /\ Find(deco.html, numberOpen \o lineNumberOpen, 1) = 0
       /\ Count(deco.html, lineNumberOpen, 1)
            = (IF IsDigit(Ch(deco.input, 1)) THEN 1 ELSE 0)

====
